---- MODULE Spec2Model ----
(***************************************************************************)
(* Secret Assassin: the mission-assignment engine (lib/game), the game     *)
(* state route (GET/POST/PATCH /api/game/{room}), the elimination route    *)
(* (POST /api/game/{room}/eliminate) and the polling kiosk/host/home       *)
(* clients.  Strings are sequences of one-character strings so that        *)
(* normalizeName, trim and startsWith are computed, not assumed.           *)
(***************************************************************************)
EXTENDS Integers, Sequences, FiniteSets, TLC

VARIABLES
    redisClient,     \* getRedis() returns a client (REDIS_URL set) or null
    config,          \* the RoomConfig of the room (playerNames, rooms, objects)
    seedDraws,       \* the draws the stream seeded with "room-<n>" yields
    gameStore,       \* game:{room} in Redis, or the game route's gameStates map
    elimGameStates,  \* the eliminate route's own in-memory gameStates map
    last,            \* the last eliminate request: input, document read, response
    localGame,       \* per device: the active game saved in localStorage
    gameState,       \* per device: the React state gameState of the kiosk/host view
    pollClosure,     \* per device: the gameState captured by the poll effect
    pollFetch,       \* per device: a poll whose fetch has answered, not yet merged
    joinFetch,       \* per device: a join whose fetch has answered, not yet finished
    claimPending,    \* per device: markClaimed saved locally, PATCH not yet handled
    lastPoll,        \* per device: the last completed poll merge
    localStorage,    \* the host browser's localStorage: room config, game, pointers
    lastGen,         \* the last lib/game call on the host browser and its outcome
    lastPost,        \* the last POST to a storage route: body, store read, response
    call,            \* a call of a pure function of lib/game: its name and arguments
    ret,             \* what that call returned, once it has returned
    pending,         \* per requester: an eliminate request that has read the store
    done             \* the eliminate requests that have answered, in order of their write

vars == <<redisClient, config, seedDraws, gameStore, elimGameStates, last,
          localGame, gameState, pollClosure, pollFetch, joinFetch, claimPending,
          lastPoll, localStorage, lastGen, lastPost, call, ret, pending, done>>

serverVars == <<redisClient, config, seedDraws, gameStore, elimGameStates>>
historyVars == <<last>>
clientVars == <<localGame, gameState, pollClosure, pollFetch, joinFetch,
                claimPending, lastPoll>>
hostVars == <<localStorage, lastGen, lastPost>>
pureVars == <<call, ret>>
raceVars == <<pending, done>>

(***************************************************************************)
(* Bounds of the model.                                                    *)
(***************************************************************************)
MaxPlayers == 3
MaxLen == 4
MaxRequests == 3

(***************************************************************************)
(* Strings.                                                                *)
(***************************************************************************)
\* \s and trim: the space and the tab stand for the whitespace characters
IsSpace(c) == c \in {" ", "\t"}

toLowerCase(c) ==
    CASE c = "A" -> "a"
      [] c = "B" -> "b"
      [] c = "C" -> "c"
      [] c = "D" -> "d"
      [] c = "E" -> "e"
      [] OTHER -> c

RECURSIVE trimStart(_)
trimStart(s) ==
    IF s # << >> /\ IsSpace(Head(s)) THEN trimStart(Tail(s)) ELSE s

RECURSIVE trimEnd(_)
trimEnd(s) ==
    IF s # << >> /\ IsSpace(s[Len(s)]) THEN trimEnd(SubSeq(s, 1, Len(s) - 1)) ELSE s

trim(s) == trimEnd(trimStart(s))

lowerAll(s) == [i \in 1..Len(s) |-> toLowerCase(s[i])]

\* s.replace(/\s+/g, " "): every maximal run of whitespace becomes one space
RECURSIVE collapseSpaces(_)
collapseSpaces(s) ==
    IF s = << >> THEN << >>
    ELSE IF IsSpace(Head(s))
         THEN <<" ">> \o collapseSpaces(trimStart(s))
         ELSE <<Head(s)>> \o collapseSpaces(Tail(s))

\* normalizeName removing one leading whitespace character instead of trimming
normalizeNameTrimOnce(s) ==
    collapseSpaces(lowerAll(IF s # << >> /\ IsSpace(Head(s)) THEN Tail(s) ELSE s))

\* normalizeName without toLowerCase
normalizeNameKeepCase(s) == collapseSpaces(trim(s))

normalizeName(s) == collapseSpaces(lowerAll(trim(s)))

DeadMarker == <<"d", "e", "a", "d", "_">>

startsWith(s, p) == Len(s) >= Len(p) /\ SubSeq(s, 1, Len(p)) = p

(***************************************************************************)
(* Optional values: << >> is null/undefined, <<v>> is v.                   *)
(***************************************************************************)
None == << >>
Some(v) == <<v>>

(***************************************************************************)
(* shuffle and derangement, with the stream of draws made explicit:        *)
(* draws[i] is Math.floor(rng.next() * bound) at loop index i.             *)
(***************************************************************************)
Swap(s, a, b) == [s EXCEPT ![a] = s[b], ![b] = s[a]]

\* indices are 0-based in the source, 1-based here
RECURSIVE SwapLoop(_, _, _)
SwapLoop(result, i, draws) ==
    IF i < 1 THEN result
    ELSE SwapLoop(Swap(result, i + 1, draws[i] + 1), i - 1, draws)

shuffle(arr, draws) == SwapLoop(arr, Len(arr) - 1, draws)

RECURSIVE FixLoop(_, _, _, _)
FixLoop(result, names, i, fix) ==
    IF i >= Len(names) THEN result
    ELSE IF result[i + 1] = names[i + 1]
         THEN FixLoop(Swap(result, i + 1, fix[i] + 1), names, i + 1, fix)
         ELSE FixLoop(result, names, i + 1, fix)

\* a shuffle drawing j in [1, i] with no repair pass
derangementInclusive(names, draws, fix) ==
    SwapLoop(names, Len(names) - 1, [i \in DOMAIN draws |-> draws[i] + 1])

derangement(names, draws, fix) ==
    FixLoop(SwapLoop(names, Len(names) - 1, draws), names, 0, fix)

\* the swap loop of derangement drawing j in [0, i] as Fisher-Yates does
SattoloDrawsInclusive(n) ==
    {d \in [1..(n - 1) -> 0..(n - 1)] : \A i \in 1..(n - 1) : d[i] <= i}

\* the draws a stream can yield: Sattolo draws j in [0, i), Fisher-Yates j in [0, i]
SattoloDraws(n) == {d \in [1..(n - 1) -> 0..(n - 2)] : \A i \in 1..(n - 1) : d[i] < i}
ShuffleDraws(n) == {d \in [1..(n - 1) -> 0..(n - 1)] : \A i \in 1..(n - 1) : d[i] <= i}
FixDraws(n) == {f \in [0..(n - 1) -> 0..(n - 1)] : \A i \in 0..(n - 1) : f[i] # i}

(***************************************************************************)
(* The game state document and its builder.                                *)
(***************************************************************************)
RoomNumber == "4821"

\* the loop that normalizes and de-duplicates config.playerNames
RECURSIVE dedupePlayers(_, _, _)
dedupePlayers(names, seen, players) ==
    IF names = << >> THEN players
    ELSE LET name == Head(names)
             normalized == normalizeName(name)
         IN IF normalized \in seen
            THEN dedupePlayers(Tail(names), seen, players)
            ELSE dedupePlayers(Tail(names), seen \cup {normalized},
                     Append(players, [name |-> trim(name), nameNormalized |-> normalized]))

orDefault(list, placeholder) == IF Len(list) > 0 THEN list ELSE <<placeholder>>

NoEliminations == [k \in {} |-> << >>]
NoClaims == [k \in {} |-> TRUE]

\* generateGameFromConfig without its saveGame: None when it throws
generateGameFromConfig(cfg, roomNumber, draws) ==
    LET players == dedupePlayers(cfg.playerNames, {}, << >>)
        playerNamesOnly == [i \in 1..Len(players) |-> players[i].name]
        targetNames == derangement(playerNamesOnly, draws.targets, draws.fix)
        shuffledRooms == shuffle(orDefault(cfg.rooms, "unknown room"), draws.rooms)
        shuffledObjects == shuffle(orDefault(cfg.objects, "unknown object"), draws.objects)
        keys == {players[i].nameNormalized : i \in 1..Len(players)}
        indexOf(k) == CHOOSE i \in 1..Len(players) : players[i].nameNormalized = k
    IN IF Len(players) < 3 THEN None
       ELSE Some([roomNumber |-> roomNumber,
                  players |-> players,
                  rooms |-> shuffledRooms,
                  objects |-> shuffledObjects,
                  assignmentsByName |->
                      [k \in keys |->
                          [targetName |-> targetNames[indexOf(k)],
                           room |-> shuffledRooms[((indexOf(k) - 1) % Len(shuffledRooms)) + 1],
                           object |-> shuffledObjects[((indexOf(k) - 1) % Len(shuffledObjects)) + 1]]],
                  claimedByName |-> NoClaims,
                  hasEliminations |-> FALSE,
                  eliminations |-> NoEliminations])

Built == generateGameFromConfig(config, RoomNumber, seedDraws)[1]

(***************************************************************************)
(* The inputs: rosters of raw player names, rooms and objects.             *)
(***************************************************************************)
PlainPool ==
    << <<"A">>,
       <<" ", "B">>,
       <<"C", " ", " ", "e">>,
       <<"E", " ">>,
       <<"d">> >>

\* a roster with a player whose identity begins with the self-report marker
MarkedRoster ==
    << <<"A">>,
       <<"D", "e", "a", "d", "_", "b", " ">>,
       <<" ", "B">> >>

ConfigRooms == <<"kitchen", "hallway">>
ConfigObjects == <<"phone", "keys">>

Rosters == {SubSeq(PlainPool, 1, n) : n \in 3..MaxPlayers} \cup {MarkedRoster}

DrawsFor(cfg) ==
    LET n == Len(dedupePlayers(cfg.playerNames, {}, << >>))
    IN {[targets |-> t, fix |-> [i \in 0..(n - 1) |-> (i + 1) % n], rooms |-> r, objects |-> o] :
            t \in SattoloDraws(n),
            r \in ShuffleDraws(Len(orDefault(cfg.rooms, "unknown room"))),
            o \in ShuffleDraws(Len(orDefault(cfg.objects, "unknown object")))}

PlayerKeys == DOMAIN Built.assignmentsByName

\* identities a request can carry: the players, a stranger, and for a target
\* its self-report form "dead_<target>"
Stranger == <<"z">>
Targets == PlayerKeys \cup {Stranger}
Killers(target) == PlayerKeys \cup {Stranger, DeadMarker \o target}

(***************************************************************************)
(* The elimination route: POST /api/game/{room}/eliminate.                 *)
(***************************************************************************)
RoomNotFound == "Room not found"
KillerNotFound == "Killer not found in game"
TargetNotFound == "Target not found in game"
WrongTarget == "Target is not the killer's assigned target"
AlreadyEliminated == "Target already eliminated"
Success == "success"

Values(f) == {f[k] : k \in DOMAIN f}

\* if (!state.eliminations) state.eliminations = {}
ensureEliminations(state) == [state EXCEPT !.hasEliminations = TRUE]

isSelfReportedDeath(killerNameNormalized) == startsWith(killerNameNormalized, DeadMarker)

\* eliminateResponse with the already-eliminated check left out
eliminateResponseNoVictimCheck(state, killerNameNormalized, targetNameNormalized) ==
    IF killerNameNormalized \notin DOMAIN state.assignmentsByName THEN KillerNotFound
    ELSE IF targetNameNormalized \notin DOMAIN state.assignmentsByName THEN TargetNotFound
    ELSE IF /\ ~isSelfReportedDeath(killerNameNormalized)
            /\ normalizeName(state.assignmentsByName[killerNameNormalized].targetName)
                   # targetNameNormalized
         THEN WrongTarget
    ELSE Success

\* eliminateResponse with the already-eliminated check moved before the target check
eliminateResponseVictimFirst(state, killerNameNormalized, targetNameNormalized) ==
    IF killerNameNormalized \notin DOMAIN state.assignmentsByName THEN KillerNotFound
    ELSE IF targetNameNormalized \notin DOMAIN state.assignmentsByName THEN TargetNotFound
    ELSE IF targetNameNormalized \in Values(state.eliminations) THEN AlreadyEliminated
    ELSE IF /\ ~isSelfReportedDeath(killerNameNormalized)
            /\ normalizeName(state.assignmentsByName[killerNameNormalized].targetName)
                   # targetNameNormalized
         THEN WrongTarget
    ELSE Success

\* the validation chain: the response of the first check that fails
eliminateResponse(state, killerNameNormalized, targetNameNormalized) ==
    IF killerNameNormalized \notin DOMAIN state.assignmentsByName THEN KillerNotFound
    ELSE IF targetNameNormalized \notin DOMAIN state.assignmentsByName THEN TargetNotFound
    ELSE IF /\ ~isSelfReportedDeath(killerNameNormalized)
            /\ normalizeName(state.assignmentsByName[killerNameNormalized].targetName)
                   # targetNameNormalized
         THEN WrongTarget
    ELSE IF targetNameNormalized \in Values(state.eliminations) THEN AlreadyEliminated
    ELSE Success

Put(f, k, v) == [x \in DOMAIN f \cup {k} |-> IF x = k THEN v ELSE f[x]]

\* applyElimination that also removes the victim's assignment
applyEliminationDropVictim(state, killerNameNormalized, targetNameNormalized) ==
    LET targetAssignment == state.assignmentsByName[targetNameNormalized]
        recorded == [state EXCEPT !.eliminations =
                        Put(@, killerNameNormalized, targetNameNormalized)]
        inherited == Put(state.assignmentsByName, killerNameNormalized,
                         [targetName |-> targetAssignment.targetName,
                          room |-> targetAssignment.room,
                          object |-> targetAssignment.object])
    IN IF isSelfReportedDeath(killerNameNormalized) THEN recorded
       ELSE [recorded EXCEPT !.assignmentsByName =
                [k \in DOMAIN inherited \ {targetNameNormalized} |-> inherited[k]]]

\* applyElimination that also withdraws the victim's claim
applyEliminationClearClaim(state, killerNameNormalized, targetNameNormalized) ==
    LET targetAssignment == state.assignmentsByName[targetNameNormalized]
        recorded == [state EXCEPT !.eliminations =
                        Put(@, killerNameNormalized, targetNameNormalized),
                                  !.claimedByName = Put(@, targetNameNormalized, FALSE)]
    IN IF isSelfReportedDeath(killerNameNormalized) THEN recorded
       ELSE [recorded EXCEPT !.assignmentsByName =
                Put(@, killerNameNormalized,
                    [targetName |-> targetAssignment.targetName,
                     room |-> targetAssignment.room,
                     object |-> targetAssignment.object])]

\* applyElimination inheriting the target's targetName only
applyEliminationKeepRoom(state, killerNameNormalized, targetNameNormalized) ==
    LET targetAssignment == state.assignmentsByName[targetNameNormalized]
        killerAssignment == state.assignmentsByName[killerNameNormalized]
        recorded == [state EXCEPT !.eliminations =
                        Put(@, killerNameNormalized, targetNameNormalized)]
    IN IF isSelfReportedDeath(killerNameNormalized) THEN recorded
       ELSE [recorded EXCEPT !.assignmentsByName =
                Put(@, killerNameNormalized,
                    [targetName |-> targetAssignment.targetName,
                     room |-> killerAssignment.room,
                     object |-> killerAssignment.object])]

\* applyElimination that forgets to record a self-reported death
applyEliminationNoSelfRecord(state, killerNameNormalized, targetNameNormalized) ==
    LET targetAssignment == state.assignmentsByName[targetNameNormalized]
        recorded == [state EXCEPT !.eliminations =
                        Put(@, killerNameNormalized, targetNameNormalized)]
    IN IF isSelfReportedDeath(killerNameNormalized) THEN state
       ELSE [recorded EXCEPT !.assignmentsByName =
                Put(@, killerNameNormalized,
                    [targetName |-> targetAssignment.targetName,
                     room |-> targetAssignment.room,
                     object |-> targetAssignment.object])]

\* record the elimination, then inherit the target's mission unless self-reported
applyElimination(state, killerNameNormalized, targetNameNormalized) ==
    LET targetAssignment == state.assignmentsByName[targetNameNormalized]
        recorded == [state EXCEPT !.eliminations =
                        Put(@, killerNameNormalized, targetNameNormalized)]
    IN IF isSelfReportedDeath(killerNameNormalized) THEN recorded
       ELSE [recorded EXCEPT !.assignmentsByName =
                Put(@, killerNameNormalized,
                    [targetName |-> targetAssignment.targetName,
                     room |-> targetAssignment.room,
                     object |-> targetAssignment.object])]

NoRequest ==
    [killer |-> << >>, target |-> << >>, pre |-> None, resp |-> "none", repeat |-> FALSE]

\* eliminateHandler saving the defaulted document back before it validates
eliminateHandlerEarlySave(loaded, killerNameNormalized, targetNameNormalized) ==
    IF loaded = None
    THEN [resp |-> RoomNotFound, wrote |-> FALSE, state |-> None]
    ELSE LET state == ensureEliminations(loaded[1])
             resp == eliminateResponse(state, killerNameNormalized, targetNameNormalized)
         IN IF resp = Success
            THEN [resp |-> Success, wrote |-> TRUE,
                  state |-> Some(applyElimination(state, killerNameNormalized,
                                                  targetNameNormalized))]
            ELSE [resp |-> resp, wrote |-> TRUE, state |-> Some(state)]

\* the handler from the loaded document to its response: wrote says whether
\* the document was saved back, state is the handler's state object at return
eliminateHandler(loaded, killerNameNormalized, targetNameNormalized) ==
    IF loaded = None
    THEN [resp |-> RoomNotFound, wrote |-> FALSE, state |-> None]
    ELSE LET state == ensureEliminations(loaded[1])
             resp == eliminateResponse(state, killerNameNormalized, targetNameNormalized)
         IN IF resp = Success
            THEN [resp |-> Success, wrote |-> TRUE,
                  state |-> Some(applyElimination(state, killerNameNormalized,
                                                  targetNameNormalized))]
            ELSE [resp |-> resp, wrote |-> FALSE, state |-> Some(state)]

\* one elimination request, handled from its read of the store to its response
Eliminate(killerNameNormalized, targetNameNormalized) ==
    LET loaded == IF redisClient THEN gameStore ELSE elimGameStates
        h == eliminateHandler(loaded, killerNameNormalized, targetNameNormalized)
    IN /\ last' = [killer |-> killerNameNormalized,
                   target |-> targetNameNormalized,
                   pre |-> loaded,
                   resp |-> h.resp,
                   repeat |-> /\ last.resp = Success
                              /\ last.killer = killerNameNormalized
                              /\ last.target = targetNameNormalized]
       \* Redis holds a serialized copy, replaced only by the write-back; the
       \* in-memory map hands out the stored object itself
       /\ gameStore' = IF redisClient /\ h.wrote THEN h.state ELSE gameStore
       /\ elimGameStates' = IF redisClient THEN elimGameStates ELSE h.state
       /\ UNCHANGED <<redisClient, config, seedDraws>>
       /\ UNCHANGED clientVars
       /\ UNCHANGED hostVars
       /\ UNCHANGED pureVars
       /\ UNCHANGED raceVars

\* syncGameToServer: POST /api/game/{room} of a game state
PostGame(state) ==
    /\ state.roomNumber = RoomNumber
    /\ gameStore' = Some(state)
    /\ UNCHANGED <<redisClient, config, seedDraws, elimGameStates>>
    /\ UNCHANGED historyVars
    /\ UNCHANGED pureVars
    /\ UNCHANGED raceVars
    /\ UNCHANGED hostVars
    /\ UNCHANGED clientVars

NoDevice == [d \in {} |-> None]

\* an empty localStorage: the entries lib/game keeps for the room and the
\* two pointers (ACTIVE_ROOM_KEY, ACTIVE_GAME_KEY)
EmptyStorage == [roomConfig |-> None, activeRoom |-> None, game |-> None, activeGame |-> None]
NoCall == [op |-> "none", playerNames |-> << >>, pre |-> EmptyStorage, result |-> None,
           error |-> "none", generated |-> None, before |-> None]
NoPost == [route |-> "none", body |-> None, pre |-> None, resp |-> "none"]
NoPure == [fn |-> "none", arg |-> << >>, draws |-> << >>]

Eliminations(store) == IF store = None THEN NoEliminations ELSE store[1].eliminations
Victims(store) == Values(Eliminations(store))
TargetOf(doc, p) == normalizeName(doc.assignmentsByName[p].targetName)

InitElim ==
    /\ redisClient \in BOOLEAN
    /\ config \in {[roomNumber |-> RoomNumber, playerNames |-> r, rooms |-> ConfigRooms,
                       objects |-> ConfigObjects] :
                      r \in Rosters}
    /\ seedDraws \in DrawsFor(config)
    /\ gameStore = None
    /\ elimGameStates = None
    /\ last = NoRequest
    /\ localGame = NoDevice
    /\ gameState = NoDevice
    /\ pollClosure = NoDevice
    /\ pollFetch = NoDevice
    /\ joinFetch = NoDevice
    /\ claimPending = NoDevice
    /\ lastPoll = NoDevice
    /\ localStorage = EmptyStorage
    /\ lastGen = NoCall
    /\ lastPost = NoPost
    /\ call = NoPure
    /\ ret = None
    /\ pending = NoDevice
    /\ done = << >>

SyncBuilt == gameStore = None /\ PostGame(Built)

EliminateAny == \E t \in Targets : \E k \in Killers(t) : Eliminate(k, t)

NextElim == SyncBuilt \/ EliminateAny

SpecElim == InitElim /\ [][NextElim]_vars

(***************************************************************************)
(* The game state route and the polling devices (SpecClaim).               *)
(***************************************************************************)
Devices == {"kiosk1", "kiosk2"}

Claimed(doc) == {k \in DOMAIN doc.claimedByName : doc.claimedByName[k]}
ClaimedIn(slot) == IF slot = None THEN {} ELSE Claimed(slot[1])

\* a claim that flips the flag instead of setting it
setClaimedToggle(state, playerName) ==
    [state EXCEPT !.claimedByName =
        Put(@, playerName, ~(playerName \in DOMAIN @ /\ @[playerName]))]

\* state.claimedByName[playerName] = true
setClaimed(state, playerName) ==
    [state EXCEPT !.claimedByName = Put(@, playerName, TRUE)]

\* PATCH /api/game/{room}: the store after the request
patchClaim(store, playerName) ==
    IF store = None THEN None ELSE Some(setClaimed(store[1], playerName))

\* { ...local, ...server }: the server's entries override the local ones
spreadClaims(local, server) ==
    [k \in DOMAIN local \cup DOMAIN server |->
        IF k \in DOMAIN server THEN server[k] ELSE local[k]]

\* the merge of a poll: the server state with the claims of the gameState the
\* interval callback closed over spread under the server's
mergePoll(serverState, closedOver) ==
    [serverState EXCEPT !.claimedByName = spreadClaims(closedOver.claimedByName, @)]

\* setGameState: the poll effect depends on gameState?.roomNumber, so it is
\* set up again, closing over the new gameState, only when that value changes
roomNumberOf(slot) == IF slot = None THEN None ELSE Some(slot[1].roomNumber)

SetGameState(d, slot) ==
    /\ gameState' = [gameState EXCEPT ![d] = slot]
    /\ pollClosure' = [pollClosure EXCEPT ![d] =
                          IF roomNumberOf(slot) = roomNumberOf(gameState[d]) THEN @
                          ELSE slot]

\* handleJoinRoom up to the answer of loadGameFromServer
JoinFetch(d) ==
    /\ localGame[d] = None
    /\ joinFetch[d] = None
    /\ joinFetch' = [joinFetch EXCEPT ![d] = Some(gameStore)]
    /\ UNCHANGED <<localGame, gameState, pollClosure, pollFetch, claimPending, lastPoll>>
    /\ UNCHANGED serverVars
    /\ UNCHANGED historyVars
    /\ UNCHANGED pureVars
    /\ UNCHANGED raceVars
    /\ UNCHANGED hostVars

\* handleJoinRoom from there: take the server's state, or regenerate it from the
\* room config and sync it to the server; save it and show it (onJoin)
JoinFinish(d) ==
    /\ joinFetch[d] # None
    /\ LET fetched == joinFetch[d][1]
           joined == IF fetched # None THEN fetched
                     ELSE generateGameFromConfig(config, RoomNumber, seedDraws)
       IN /\ gameStore' = IF fetched # None THEN gameStore ELSE joined
          /\ localGame' = [localGame EXCEPT ![d] = joined]
          /\ SetGameState(d, joined)
    /\ joinFetch' = [joinFetch EXCEPT ![d] = None]
    /\ UNCHANGED <<pollFetch, claimPending, lastPoll>>
    /\ UNCHANGED <<redisClient, config, seedDraws, elimGameStates>>
    /\ UNCHANGED historyVars
    /\ UNCHANGED pureVars
    /\ UNCHANGED raceVars
    /\ UNCHANGED hostVars

\* the interval callback of the kiosk (and host) view up to the answer of
\* loadGameFromServer; it carries the gameState it closed over
PollFetch(d) ==
    /\ pollClosure[d] # None
    /\ pollFetch[d] = None
    /\ gameStore # None
    /\ pollFetch' = [pollFetch EXCEPT ![d] =
                        Some([serverState |-> gameStore[1], closedOver |-> pollClosure[d][1]])]
    /\ UNCHANGED <<localGame, gameState, pollClosure, joinFetch, claimPending, lastPoll>>
    /\ UNCHANGED serverVars
    /\ UNCHANGED historyVars
    /\ UNCHANGED pureVars
    /\ UNCHANGED raceVars
    /\ UNCHANGED hostVars

\* the callback from there: merge, setGameState(mergedState), saveGame(mergedState)
PollMerge(d) ==
    /\ pollFetch[d] # None
    /\ LET mergedState == mergePoll(pollFetch[d][1].serverState, pollFetch[d][1].closedOver)
       IN /\ SetGameState(d, Some(mergedState))
          /\ localGame' = [localGame EXCEPT ![d] = Some(mergedState)]
          /\ lastPoll' = [lastPoll EXCEPT ![d] =
                  Some([seen |-> ClaimedIn(gameState[d]) \cup ClaimedIn(localGame[d]),
                        fetched |-> Claimed(pollFetch[d][1].serverState),
                        merged |-> Claimed(mergedState)])]
    /\ pollFetch' = [pollFetch EXCEPT ![d] = None]
    /\ UNCHANGED <<joinFetch, claimPending>>
    /\ UNCHANGED serverVars
    /\ UNCHANGED historyVars
    /\ UNCHANGED pureVars
    /\ UNCHANGED raceVars
    /\ UNCHANGED hostVars

\* handleHideMission -> markClaimed up to its await: the claim is saved locally
MarkClaimedLocal(d, nameNormalized) ==
    /\ gameState[d] # None
    /\ \E i \in 1..Len(gameState[d][1].players) :
           gameState[d][1].players[i].nameNormalized = nameNormalized
    /\ nameNormalized \notin Claimed(gameState[d][1])
    /\ localGame[d] # None
    /\ claimPending[d] = None
    /\ LET state == setClaimed(localGame[d][1], nameNormalized)
       IN /\ localGame' = [localGame EXCEPT ![d] = Some(state)]
          /\ claimPending' = [claimPending EXCEPT ![d] =
                                 Some([playerName |-> nameNormalized, state |-> state])]
    /\ UNCHANGED <<gameState, pollClosure, pollFetch, joinFetch, lastPoll>>
    /\ UNCHANGED serverVars
    /\ UNCHANGED historyVars
    /\ UNCHANGED pureVars
    /\ UNCHANGED raceVars
    /\ UNCHANGED hostVars

\* the PATCH of markClaimedOnServer is handled, markClaimed returns its state
\* and handleHideMission shows it
MarkClaimedOnServer(d) ==
    /\ claimPending[d] # None
    /\ gameStore' = patchClaim(gameStore, claimPending[d][1].playerName)
    /\ SetGameState(d, Some(claimPending[d][1].state))
    /\ claimPending' = [claimPending EXCEPT ![d] = None]
    /\ UNCHANGED <<localGame, pollFetch, joinFetch, lastPoll>>
    /\ UNCHANGED <<redisClient, config, seedDraws, elimGameStates>>
    /\ UNCHANGED historyVars
    /\ UNCHANGED pureVars
    /\ UNCHANGED raceVars
    /\ UNCHANGED hostVars

\* the interval callback of the home page: saveGame(serverState)
HomePoll(d) ==
    /\ localGame[d] # None
    /\ gameStore # None
    /\ localGame' = [localGame EXCEPT ![d] = gameStore]
    /\ UNCHANGED <<gameState, pollClosure, pollFetch, joinFetch, claimPending, lastPoll>>
    /\ UNCHANGED serverVars
    /\ UNCHANGED historyVars
    /\ UNCHANGED pureVars
    /\ UNCHANGED raceVars
    /\ UNCHANGED hostVars

\* handleEliminateTarget: a player reports the kill of their current target;
\* here the first kill of the game
EliminateTarget(claimedPlayerName) ==
    /\ gameStore # None
    /\ Eliminations(gameStore) = NoEliminations
    /\ Eliminate(claimedPlayerName, TargetOf(gameStore[1], claimedPlayerName))

ClaimRoster == SubSeq(PlainPool, 1, 3)

InitClaim ==
    /\ redisClient \in BOOLEAN
    /\ config = [roomNumber |-> RoomNumber, playerNames |-> ClaimRoster,
                 rooms |-> ConfigRooms, objects |-> ConfigObjects]
    /\ seedDraws = CHOOSE draws \in DrawsFor(config) : TRUE
    /\ gameStore = None
    /\ elimGameStates = None
    /\ last = NoRequest
    /\ localGame = [d \in Devices |-> None]
    /\ gameState = [d \in Devices |-> None]
    /\ pollClosure = [d \in Devices |-> None]
    /\ pollFetch = [d \in Devices |-> None]
    /\ joinFetch = [d \in Devices |-> None]
    /\ claimPending = [d \in Devices |-> None]
    /\ lastPoll = [d \in Devices |-> None]
    /\ localStorage = EmptyStorage
    /\ lastGen = NoCall
    /\ lastPost = NoPost
    /\ call = NoPure
    /\ ret = None
    /\ pending = NoDevice
    /\ done = << >>

Join == \E d \in Devices : JoinFetch(d) \/ JoinFinish(d)
Poll == \E d \in Devices : PollFetch(d) \/ PollMerge(d)
\* the player who comes to the kiosks to claim a mission and reports a kill
Claimers == {Built.players[1].nameNormalized}

Claim == \E d \in Devices :
             \/ \E p \in Claimers : MarkClaimedLocal(d, p)
             \/ MarkClaimedOnServer(d)
Home == \E d \in Devices : HomePoll(d)
Kill == \E p \in Claimers : EliminateTarget(p)

NextClaim == Join \/ Poll \/ Claim \/ Home \/ Kill

SpecClaim == InitClaim /\ [][NextClaim]_vars

(***************************************************************************)
(* lib/game on the host browser: generateGame, loadGameByRoom, resetGame   *)
(* over localStorage (SpecGen).                                            *)
(***************************************************************************)
TooFewPlayers == "At least 3 players required"
TooFewUnique == "At least 3 unique players required"

seedOf(roomNumber) == <<"room-", roomNumber>>
gameIdOf(roomNumber) == <<"room-", roomNumber>>

\* every stream of draws a seed can yield for a config, the draws of the
\* repair pass included
AllDrawsFor(cfg) ==
    LET n == Len(dedupePlayers(cfg.playerNames, {}, << >>))
    IN {[targets |-> t, fix |-> f, rooms |-> r, objects |-> o] :
            t \in SattoloDraws(n), f \in FixDraws(n),
            r \in ShuffleDraws(Len(orDefault(cfg.rooms, "unknown room"))),
            o \in ShuffleDraws(Len(orDefault(cfg.objects, "unknown object")))}

\* Math.random() in place of the seeded stream: any draws
SeededRandomUnseeded(seed) == AllDrawsFor(config)

\* new SeededRandom(seed): the draws its stream yields, fixed by the seed
SeededRandom(seed) == {seedDraws}

\* saveRoomConfig dropping the rooms of the config
saveRoomConfigNoRooms(ls, cfg) ==
    [ls EXCEPT !.roomConfig = Some([cfg EXCEPT !.rooms = << >>]),
               !.activeRoom = Some(cfg.roomNumber)]

saveRoomConfig(ls, cfg) ==
    [ls EXCEPT !.roomConfig = Some(cfg), !.activeRoom = Some(cfg.roomNumber)]

loadRoomConfig(ls, roomNumber) ==
    IF roomNumber = RoomNumber THEN ls.roomConfig ELSE None

saveGame(ls, state) ==
    [ls EXCEPT !.game = Some(state), !.activeGame = Some(gameIdOf(state.roomNumber))]

resetGame(ls) ==
    [ls EXCEPT !.game = IF ls.activeGame # None THEN None ELSE @,
               !.activeGame = None,
               !.activeRoom = None]

\* generateGameFromConfig with its saveGame; a throw leaves an error
generateAndSave(ls, cfg, roomNumber, draws) ==
    LET built == generateGameFromConfig(cfg, roomNumber, draws)
    IN IF built = None
       THEN [state |-> None, error |-> TooFewUnique, ls |-> ls]
       ELSE [state |-> built, error |-> "none", ls |-> saveGame(ls, built[1])]

generateGame(ls, playerNames, rooms, objects, roomNumber, draws) ==
    LET cfg == [roomNumber |-> roomNumber, playerNames |-> playerNames,
                rooms |-> rooms, objects |-> objects]
    IN IF Len(playerNames) < 3
       THEN [state |-> None, error |-> TooFewPlayers, ls |-> ls]
       ELSE generateAndSave(saveRoomConfig(ls, cfg), cfg, roomNumber, draws)

loadGameByRoom(ls, roomNumber, draws) ==
    LET cfg == loadRoomConfig(ls, roomNumber)
    IN IF cfg = None
       THEN [state |-> None, error |-> "none", ls |-> ls]
       ELSE generateAndSave(ls, cfg[1], roomNumber, draws)

\* rosters generateGame must refuse: two raw names; three raw names of one
\* identity; four raw names of two identities
TwoNames == << <<"A">>, <<" ", "B">> >>
OneIdentity == << <<"A", "b">>, <<"a", "b", " ">>, <<"A", "B">> >>
TwoIdentities == << <<"A">>, <<" ", "B">>, <<"a">>, <<"b", " ">> >>
RefusedRosters == {TwoNames, OneIdentity, TwoIdentities}

\* handleGenerate: generateGame(names, roomsList, objectsList, pin, room)
GenerateGame(playerNames) ==
    /\ \E draws \in SeededRandom(seedOf(RoomNumber)) :
          LET r == generateGame(localStorage, playerNames, config.rooms, config.objects,
                                RoomNumber, draws)
          IN /\ localStorage' = r.ls
             /\ lastGen' = [op |-> "generateGame", playerNames |-> playerNames,
                            pre |-> localStorage, result |-> r.state, error |-> r.error,
                            generated |-> IF r.state # None THEN r.state
                                          ELSE lastGen.generated,
                            before |-> lastGen.generated]
    /\ UNCHANGED lastPost
    /\ UNCHANGED serverVars
    /\ UNCHANGED historyVars
    /\ UNCHANGED pureVars
    /\ UNCHANGED raceVars
    /\ UNCHANGED clientVars

\* a join by room number on the same browser: loadGameByRoom(room)
LoadGameByRoom ==
    /\ \E draws \in SeededRandom(seedOf(RoomNumber)) :
          LET r == loadGameByRoom(localStorage, RoomNumber, draws)
          IN /\ localStorage' = r.ls
             /\ lastGen' = [op |-> "loadGameByRoom", playerNames |-> << >>,
                            pre |-> localStorage, result |-> r.state, error |-> r.error,
                            generated |-> lastGen.generated,
                            before |-> lastGen.generated]
    /\ UNCHANGED lastPost
    /\ UNCHANGED serverVars
    /\ UNCHANGED historyVars
    /\ UNCHANGED pureVars
    /\ UNCHANGED raceVars
    /\ UNCHANGED clientVars

\* handleReset: resetGame()
ResetGame ==
    /\ localStorage' = resetGame(localStorage)
    /\ lastGen' = [op |-> "resetGame", playerNames |-> << >>,
                   pre |-> localStorage, result |-> None, error |-> "none",
                   generated |-> lastGen.generated,
                   before |-> lastGen.generated]
    /\ UNCHANGED lastPost
    /\ UNCHANGED serverVars
    /\ UNCHANGED historyVars
    /\ UNCHANGED pureVars
    /\ UNCHANGED raceVars
    /\ UNCHANGED clientVars

RoomLists == {ConfigRooms, << >>}

InitGen ==
    /\ redisClient = FALSE
    /\ config \in {[roomNumber |-> RoomNumber, playerNames |-> r, rooms |-> rs,
                    objects |-> ConfigObjects] : r \in Rosters, rs \in RoomLists}
    /\ seedDraws \in AllDrawsFor(config)
    /\ gameStore = None
    /\ elimGameStates = None
    /\ last = NoRequest
    /\ localGame = NoDevice
    /\ gameState = NoDevice
    /\ pollClosure = NoDevice
    /\ pollFetch = NoDevice
    /\ joinFetch = NoDevice
    /\ claimPending = NoDevice
    /\ lastPoll = NoDevice
    /\ localStorage = EmptyStorage
    /\ lastGen = NoCall
    /\ lastPost = NoPost
    /\ call = NoPure
    /\ ret = None
    /\ pending = NoDevice
    /\ done = << >>

Generate == \E playerNames \in {config.playerNames} \cup RefusedRosters :
                GenerateGame(playerNames)

NextGen == Generate \/ LoadGameByRoom \/ ResetGame

SpecGen == InitGen /\ [][NextGen]_vars

(***************************************************************************)
(* The POST handlers of the storage routes: /api/game/{room} and           *)
(* the room config route (SpecPost).                                       *)
(***************************************************************************)
RoomMismatch == "Room number mismatch"
OtherRoom == "7730"

\* the game route's POST storing whatever it is sent
postGameUnchecked(store, roomNumber, state) ==
    [resp |-> Success, store |-> Some(state)]

\* POST /api/game/{roomNumber}: the response and the store after it
postGame(store, roomNumber, state) ==
    IF state.roomNumber # roomNumber
    THEN [resp |-> RoomMismatch, store |-> store]
    ELSE [resp |-> Success, store |-> Some(state)]

\* POST of the room config route, with Redis or the in-memory map
postRoomConfig(store, roomNumber, cfg) ==
    IF cfg.roomNumber # roomNumber
    THEN [resp |-> RoomMismatch, store |-> store]
    ELSE [resp |-> Success, store |-> Some(cfg)]

PostGameRequest(state) ==
    LET r == postGame(gameStore, RoomNumber, state)
    IN /\ gameStore' = r.store
       /\ lastPost' = [route |-> "game", body |-> Some(state), pre |-> gameStore,
                       resp |-> r.resp]
       /\ UNCHANGED <<redisClient, config, seedDraws, elimGameStates>>
       /\ UNCHANGED <<localStorage, lastGen>>
       /\ UNCHANGED historyVars
       /\ UNCHANGED pureVars
       /\ UNCHANGED raceVars
       /\ UNCHANGED clientVars

PostRoomConfigRequest(cfg) ==
    LET r == postRoomConfig(Some(config), RoomNumber, cfg)
    IN /\ config' = r.store[1]
       /\ lastPost' = [route |-> "room-config", body |-> Some(cfg), pre |-> Some(config),
                       resp |-> r.resp]
       /\ UNCHANGED <<redisClient, seedDraws, gameStore, elimGameStates>>
       /\ UNCHANGED <<localStorage, lastGen>>
       /\ UNCHANGED historyVars
       /\ UNCHANGED pureVars
       /\ UNCHANGED raceVars
       /\ UNCHANGED clientVars

\* the bodies clients send: the built game, with or without a claim, and the
\* room config, with or without rooms; each under either room code
PostedRooms == {RoomNumber, OtherRoom}
GameBodies ==
    {[doc EXCEPT !.roomNumber = n] :
        doc \in {Built, setClaimed(Built, Built.players[1].nameNormalized)},
        n \in PostedRooms}
ConfigBodies ==
    {[cfg EXCEPT !.roomNumber = n] :
        cfg \in {config, [config EXCEPT !.rooms = << >>]},
        n \in PostedRooms}

PostGameAny == \E state \in GameBodies : PostGameRequest(state)
PostRoomConfigAny == \E cfg \in ConfigBodies : PostRoomConfigRequest(cfg)

NextPost == PostGameAny \/ PostRoomConfigAny

SpecPost == InitElim /\ [][NextPost]_vars

(***************************************************************************)
(* The pure functions of lib/game called on their own (SpecPure).          *)
(***************************************************************************)
Characters == {"A", "b", " ", "\t"}
Elements == {"x", "y"}
SeqsUpTo(S, n) == UNION {[1..k -> S] : k \in 0..n}

\* shuffle working on arr itself instead of a copy
shuffleCallInPlace(arr, draws) ==
    [result |-> shuffle(arr, draws), arr |-> shuffle(arr, draws)]

\* a call of shuffle: what it returns and the caller's array after the call
\* (result = [...arr] is a copy, arr is never written)
shuffleCall(arr, draws) ==
    [result |-> shuffle(arr, draws), arr |-> arr]

\* normalizeName applied to the argument, then to its own result
CallNormalizeName ==
    /\ call.fn = "normalizeName"
    /\ Len(ret) < 2
    /\ ret' = Append(ret, normalizeName(IF ret = << >> THEN call.arg ELSE ret[Len(ret)]))
    /\ UNCHANGED call
    /\ UNCHANGED raceVars
    /\ UNCHANGED serverVars
    /\ UNCHANGED historyVars
    /\ UNCHANGED clientVars
    /\ UNCHANGED hostVars

CallShuffle ==
    /\ call.fn = "shuffle"
    /\ ret = << >>
    /\ ret' = <<shuffleCall(call.arg, call.draws)>>
    /\ UNCHANGED call
    /\ UNCHANGED raceVars
    /\ UNCHANGED serverVars
    /\ UNCHANGED historyVars
    /\ UNCHANGED clientVars
    /\ UNCHANGED hostVars

PureCalls ==
    {[fn |-> "normalizeName", arg |-> x, draws |-> << >>] : x \in SeqsUpTo(Characters, MaxLen)}
    \cup UNION {{[fn |-> "shuffle", arg |-> arr, draws |-> d] : d \in ShuffleDraws(Len(arr))} :
                   arr \in SeqsUpTo(Elements, MaxLen)}

InitPure ==
    /\ redisClient = FALSE
    /\ config = [roomNumber |-> RoomNumber, playerNames |-> ClaimRoster,
                 rooms |-> ConfigRooms, objects |-> ConfigObjects]
    /\ seedDraws = CHOOSE draws \in DrawsFor(config) : TRUE
    /\ gameStore = None
    /\ elimGameStates = None
    /\ last = NoRequest
    /\ localGame = NoDevice
    /\ gameState = NoDevice
    /\ pollClosure = NoDevice
    /\ pollFetch = NoDevice
    /\ joinFetch = NoDevice
    /\ claimPending = NoDevice
    /\ lastPoll = NoDevice
    /\ localStorage = EmptyStorage
    /\ lastGen = NoCall
    /\ lastPost = NoPost
    /\ call \in PureCalls
    /\ ret = << >>
    /\ pending = NoDevice
    /\ done = << >>

NextPure == CallNormalizeName \/ CallShuffle

SpecPure == InitPure /\ [][NextPure]_vars

(***************************************************************************)
(* A game in play: kills reported by the players and claims (SpecPlay).    *)
(***************************************************************************)
\* handleEliminateTarget: a player reports the kill of their current target
ReportKill(claimedPlayerName) ==
    /\ gameStore # None
    /\ Eliminate(claimedPlayerName, TargetOf(gameStore[1], claimedPlayerName))

\* PATCH /api/game/{room} with a playerName, handled against the stored game
PatchRequest(playerName) ==
    /\ gameStore # None
    /\ gameStore' = patchClaim(gameStore, playerName)
    /\ UNCHANGED <<redisClient, config, seedDraws, elimGameStates>>
    /\ UNCHANGED historyVars
    /\ UNCHANGED pureVars
    /\ UNCHANGED raceVars
    /\ UNCHANGED clientVars
    /\ UNCHANGED hostVars

ReportAny == \E p \in PlayerKeys : ReportKill(p)
PatchAny == \E p \in Claimers \cup {Stranger} : PatchRequest(p)

NextPlay == SyncBuilt \/ ReportAny \/ PatchAny

SpecPlay == InitElim /\ [][NextPlay]_vars

(***************************************************************************)
(* Eliminate requests that overlap on the key-value store (SpecRace): the  *)
(* handler's read of game:{room} and its write-back are separate steps.    *)
(***************************************************************************)
Requesters == {"r1", "r2"}
InFlight == {r \in Requesters : pending[r] # None}

\* the handler up to the answer of redisClient.get: the request and what it read
ReadElim(r, killerNameNormalized) ==
    /\ gameStore # None
    /\ pending[r] = None
    /\ Len(done) + Cardinality(InFlight) < MaxRequests
    /\ pending' = [pending EXCEPT ![r] =
                      Some([killer |-> killerNameNormalized,
                            target |-> TargetOf(gameStore[1], killerNameNormalized),
                            loaded |-> gameStore])]
    /\ UNCHANGED done
    /\ UNCHANGED serverVars
    /\ UNCHANGED historyVars
    /\ UNCHANGED pureVars
    /\ UNCHANGED clientVars
    /\ UNCHANGED hostVars

\* the write-back validating and applying against the document stored now
WriteElimOnStored(r) ==
    /\ pending[r] # None
    /\ LET q == pending[r][1]
           h == eliminateHandler(gameStore, q.killer, q.target)
       IN /\ gameStore' = IF h.wrote THEN h.state ELSE gameStore
          /\ done' = Append(done, [killer |-> q.killer, target |-> q.target,
                                   loaded |-> q.loaded, resp |-> h.resp,
                                   state |-> IF h.wrote THEN h.state ELSE gameStore])
    /\ pending' = [pending EXCEPT ![r] = None]
    /\ UNCHANGED <<redisClient, config, seedDraws, elimGameStates>>
    /\ UNCHANGED historyVars
    /\ UNCHANGED pureVars
    /\ UNCHANGED clientVars
    /\ UNCHANGED hostVars

\* the handler from there: validate and apply on the document it read, then
\* redisClient.set of the whole document and the response
WriteElim(r) ==
    /\ pending[r] # None
    /\ LET q == pending[r][1]
           h == eliminateHandler(q.loaded, q.killer, q.target)
       IN /\ gameStore' = IF h.wrote THEN h.state ELSE gameStore
          /\ done' = Append(done, [killer |-> q.killer, target |-> q.target,
                                   loaded |-> q.loaded, resp |-> h.resp,
                                   state |-> IF h.wrote THEN h.state ELSE gameStore])
    /\ pending' = [pending EXCEPT ![r] = None]
    /\ UNCHANGED <<redisClient, config, seedDraws, elimGameStates>>
    /\ UNCHANGED historyVars
    /\ UNCHANGED pureVars
    /\ UNCHANGED clientVars
    /\ UNCHANGED hostVars

InitRace ==
    /\ redisClient = TRUE
    /\ config \in {[roomNumber |-> RoomNumber, playerNames |-> r, rooms |-> ConfigRooms,
                    objects |-> ConfigObjects] : r \in Rosters}
    /\ seedDraws \in DrawsFor(config)
    /\ gameStore = None
    /\ elimGameStates = None
    /\ last = NoRequest
    /\ localGame = NoDevice
    /\ gameState = NoDevice
    /\ pollClosure = NoDevice
    /\ pollFetch = NoDevice
    /\ joinFetch = NoDevice
    /\ claimPending = NoDevice
    /\ lastPoll = NoDevice
    /\ localStorage = EmptyStorage
    /\ lastGen = NoCall
    /\ lastPost = NoPost
    /\ call = NoPure
    /\ ret = None
    /\ pending = [r \in Requesters |-> None]
    /\ done = << >>

ReadAny == \E r \in Requesters : \E p \in PlayerKeys : ReadElim(r, p)
WriteAny == \E r \in Requesters : WriteElim(r)

NextRace == SyncBuilt \/ ReadAny \/ WriteAny

SpecRace == InitRace /\ [][NextRace]_vars

(***************************************************************************)
(* Properties of the elimination route (SpecElim).                         *)
(***************************************************************************)
Answered == last.resp # "none"
Succeeded == last.resp = Success
SelfReport == isSelfReportedDeath(last.killer)

\* C1: a successful non-self-report eliminate(killer, target) records
\* eliminations[killer] = target and leaves the killer with exactly the
\* {targetName, room, object} the target held before the call; the inherited
\* targetName names a player, so the follow-up kill of it passes the target check.
C1_KillerInheritsMission ==
    (Succeeded /\ ~SelfReport) =>
        LET before == last.pre[1]
            after == gameStore[1]
        IN /\ last.killer \in DOMAIN after.eliminations
           /\ after.eliminations[last.killer] = last.target
           /\ after.assignmentsByName[last.killer] = before.assignmentsByName[last.target]
           /\ TargetOf(after, last.killer) = TargetOf(before, last.target)
           /\ TargetOf(after, last.killer) \in DOMAIN after.assignmentsByName
           /\ eliminateResponse(after, last.killer, TargetOf(after, last.killer))
                  \in {Success, AlreadyEliminated}

C1_Witness ==
    /\ Succeeded /\ ~SelfReport
    /\ last.killer # last.target
    /\ last.pre[1].assignmentsByName[last.killer].room
           # last.pre[1].assignmentsByName[last.target].room
    /\ gameStore[1].assignmentsByName[last.killer].targetName
           # last.pre[1].assignmentsByName[last.killer].targetName

\* C2: the elimination record is additive-only: an entry (killer -> victim)
\* once recorded stays in every later state, so a victim stays a victim.
C2_EliminationsAdditiveOnly ==
    [][/\ \A k \in DOMAIN Eliminations(gameStore) :
              /\ k \in DOMAIN Eliminations(gameStore')
              /\ Eliminations(gameStore')[k] = Eliminations(gameStore)[k]
       /\ Victims(gameStore) \subseteq Victims(gameStore')]_vars

\* C3: no normalized identity occurs more than once among the values of the
\* eliminations map.
C3_VictimsDistinct ==
    \A k1, k2 \in DOMAIN Eliminations(gameStore) :
        k1 # k2 => Eliminations(gameStore)[k1] # Eliminations(gameStore)[k2]

C3_Witness ==
    /\ Cardinality(DOMAIN Eliminations(gameStore)) >= 2
    /\ last.resp = AlreadyEliminated

\* C4: the response is that of the first failing check in the order killer
\* known, target known, target is the killer's current target (unless
\* self-report), target not yet a victim; the four errors are distinct.
C4_FirstFailingCheck ==
    (Answered /\ last.pre # None) =>
        LET s == last.pre[1]
            killerKnown == last.killer \in DOMAIN s.assignmentsByName
            targetKnown == last.target \in DOMAIN s.assignmentsByName
            wrongTarget == ~SelfReport /\ TargetOf(s, last.killer) # last.target
            victim == last.target \in Values(s.eliminations)
        IN /\ ~killerKnown => last.resp = KillerNotFound
           /\ (killerKnown /\ ~targetKnown) => last.resp = TargetNotFound
           /\ (killerKnown /\ targetKnown /\ wrongTarget) => last.resp = WrongTarget
           /\ (killerKnown /\ targetKnown /\ ~wrongTarget /\ victim)
                  => last.resp = AlreadyEliminated
           /\ (killerKnown /\ targetKnown /\ ~wrongTarget /\ ~victim)
                  => last.resp = Success
           /\ Cardinality({KillerNotFound, TargetNotFound, WrongTarget,
                           AlreadyEliminated, Success, RoomNotFound}) = 6

\* two checks fail at once and the earlier one is reported
C4_Witness ==
    /\ last.resp = WrongTarget
    /\ last.target \in Values(last.pre[1].eliminations)

\* C5 as stated: repeating a successful eliminate(A, B) fails with the
\* already-eliminated (or unknown-target) error.
C5_RepeatIsAlreadyEliminated ==
    last.repeat => last.resp \in {AlreadyEliminated, TargetNotFound}

\* C5 amended: repeating a successful eliminate(A, B) right away fails; the
\* error is the wrong-target one, because A now holds B's former target,
\* and the already-eliminated one only when A is a self-report identity or
\* B's former target was B itself.
C5_RepeatFails ==
    last.repeat =>
        last.resp = IF SelfReport \/ TargetOf(last.pre[1], last.killer) = last.target
                    THEN AlreadyEliminated
                    ELSE WrongTarget

C5_Witness == last.repeat /\ last.resp = WrongTarget /\ ~SelfReport

\* C6: a self-report (killer identity carrying the "dead_" marker) for a
\* player B who has an assignment and is not yet a victim succeeds, records
\* B as a victim and changes no entry of assignmentsByName.
C6_SelfReportSucceeds ==
    (/\ Answered /\ last.pre # None
     /\ SelfReport
     /\ last.target \in DOMAIN last.pre[1].assignmentsByName
     /\ last.target \notin Values(last.pre[1].eliminations)) =>
        /\ Succeeded
        /\ last.target \in Victims(gameStore)
        /\ gameStore[1].assignmentsByName = last.pre[1].assignmentsByName

\* C7: an eliminate that fails a validation check or finds no room leaves
\* the persisted document as it was: nothing recorded, nothing written back.
C7_FailureLeavesDocument ==
    [][(last' # last /\ last'.resp # Success) =>
           /\ gameStore' = gameStore
           /\ elimGameStates' = elimGameStates
           /\ last'.pre = IF redisClient THEN gameStore ELSE elimGameStates]_vars

C7_Witness ==
    /\ last.resp \in {KillerNotFound, TargetNotFound, WrongTarget, AlreadyEliminated}
    /\ ~last.pre[1].hasEliminations
    /\ gameStore = last.pre

\* C8: a player whose assignment names themself is only ever the last player
\* not recorded as a victim: no other player outside the victims exists.
C8_NoStrandedSelfTarget ==
    gameStore # None =>
        \A p \in DOMAIN gameStore[1].assignmentsByName :
            TargetOf(gameStore[1], p) = p =>
                /\ p \notin Victims(gameStore)
                /\ \A q \in DOMAIN gameStore[1].assignmentsByName :
                       q # p => q \in Victims(gameStore)

(***************************************************************************)
(* Properties of the claim flags (SpecClaim).                              *)
(***************************************************************************)

\* C9: claimedByName is monotonic: a flag that is true in the shared document
\* of the room, or in a device's locally saved copy, is true in every later
\* state reached by claims, eliminations, polls, joins and syncs.
C9_ClaimsMonotonic ==
    [][/\ ClaimedIn(gameStore) \subseteq ClaimedIn(gameStore')
       /\ \A d \in Devices : ClaimedIn(localGame[d]) \subseteq ClaimedIn(localGame'[d])]_vars

\* C10: the merge of a poll is a union of true flags: every flag the device
\* had seen as true before the merge (displayed or saved locally, markClaimed
\* included) or that is true in the fetched document is true in the merged
\* state that is displayed and saved.
C10_PollMergeIsUnion ==
    \A d \in Devices :
        lastPoll[d] # None =>
            (lastPoll[d][1].seen \cup lastPoll[d][1].fetched) \subseteq lastPoll[d][1].merged

(***************************************************************************)
(* Properties of lib/game (SpecGen).                                       *)
(***************************************************************************)
Returned == lastGen.result # None
NamesOf(doc) == [i \in 1..Len(doc.players) |-> doc.players[i].name]
TargetsOf(doc) ==
    [i \in 1..Len(doc.players) |->
        doc.assignmentsByName[doc.players[i].nameNormalized].targetName]
\* the identities of a raw roster: trim, lowercase, collapse whitespace
Identities(playerNames) ==
    {collapseSpaces(lowerAll(trim(playerNames[i]))) : i \in 1..Len(playerNames)}

\* C12: for every list of 3 or more pairwise distinct names and every
\* sequence of draws, derangement returns a permutation of its input with no
\* index i where output[i] = input[i].
C12_DerangementNoFixedPoint ==
    Returned =>
        LET names == NamesOf(lastGen.result[1])
            out == TargetsOf(lastGen.result[1])
        IN /\ Len(out) = Len(names)
           /\ {out[i] : i \in 1..Len(out)} = {names[i] : i \in 1..Len(names)}
           /\ Cardinality({out[i] : i \in 1..Len(out)}) = Len(names)
           /\ \A i \in 1..Len(names) : out[i] # names[i]

C12_Witness ==
    /\ Returned
    /\ lastGen.op = "generateGame"
    /\ Len(lastGen.result[1].players) = MaxPlayers
    /\ seedDraws.targets[1] = 0

C14_RegenerateRoundTrip ==
    (/\ lastGen.op = "loadGameByRoom"
     /\ lastGen.generated # None
     /\ lastGen.pre.roomConfig # None
     /\ lastGen.pre.roomConfig[1].playerNames = config.playerNames) =>
        /\ Returned
        /\ lastGen.result[1].players = lastGen.generated[1].players
        /\ lastGen.result[1].rooms = lastGen.generated[1].rooms
        /\ lastGen.result[1].objects = lastGen.generated[1].objects
        /\ lastGen.result[1].assignmentsByName = lastGen.generated[1].assignmentsByName

C14_Witness ==
    /\ lastGen.op = "loadGameByRoom"
    /\ lastGen.generated # None
    /\ Returned
    /\ lastGen.pre.game = None
    /\ Len(lastGen.result[1].rooms) > 1

\* C15: generateGame fails with the insufficient-players error whenever fewer
\* than 3 identities remain after trim, lowercase, whitespace collapse and
\* de-duplication, even when the raw list has 3 or more entries; it returns a
\* state only when at least 3 identities exist, so a built state has at least
\* 3 players.
C15_InsufficientPlayers ==
    lastGen.op = "generateGame" =>
        /\ Cardinality(Identities(lastGen.playerNames)) < 3 =>
               ~Returned /\ lastGen.error \in {TooFewPlayers, TooFewUnique}
        /\ Returned =>
               /\ Cardinality(Identities(lastGen.playerNames)) >= 3
               /\ Len(lastGen.result[1].players) >= 3

C15_Witness ==
    /\ lastGen.op = "generateGame"
    /\ Len(lastGen.playerNames) >= 3
    /\ Cardinality(Identities(lastGen.playerNames)) < 3
    /\ lastGen.error = TooFewUnique

\* C16: when generateGame fails validation nothing has been written: no
\* RoomConfig is stored for the room code, the active-room pointer is
\* unchanged and no game state is saved.
C16_FailedGenerateWritesNothing ==
    (lastGen.op = "generateGame" /\ ~Returned) => localStorage = lastGen.pre

\* C17: after resetGame of the active game the persisted RoomConfig of its
\* room is discarded: loadRoomConfig(room) returns nothing and
\* loadGameByRoom(room) can no longer regenerate the game.
C17_ResetDiscardsRoomConfig ==
    lastGen.op = "resetGame" =>
        /\ loadRoomConfig(localStorage, RoomNumber) = None
        /\ \A draws \in SeededRandom(seedOf(RoomNumber)) :
               loadGameByRoom(localStorage, RoomNumber, draws).state = None

(***************************************************************************)
(* Properties of the storage routes (SpecPost).                            *)
(***************************************************************************)
Mismatched == lastPost.route # "none" /\ lastPost.body[1].roomNumber # RoomNumber
StoreOf(route) == IF route = "game" THEN gameStore ELSE Some(config)

\* C18: a POST of a game state or a room config whose roomNumber differs from
\* the room code of the request path is rejected with the room-mismatch error
\* and the stored document of that room code is left unchanged, in either
\* storage backend.
C18_MismatchRejected ==
    Mismatched =>
        /\ lastPost.resp = RoomMismatch
        /\ StoreOf(lastPost.route) = lastPost.pre

C18_Witness ==
    /\ Mismatched
    /\ lastPost.route = "game"
    /\ lastPost.pre # None
    /\ ~redisClient

(***************************************************************************)
(* Further properties of the claim flags (SpecClaim) and of the in-memory  *)
(* stores (SpecElim).                                                      *)
(***************************************************************************)
\* the name-selection list of the kiosk: the players not yet claimed
availablePlayers(slot) ==
    IF slot = None THEN {}
    ELSE {slot[1].players[i].nameNormalized : i \in 1..Len(slot[1].players)}
             \ Claimed(slot[1])

SameButClaims(a, b) == [a EXCEPT !.claimedByName = b.claimedByName] = b

\* C11: claim is idempotent: applying the claim of player P twice to a game
\* document gives the document that applying it once gives (claimedByName[P]
\* true, no other field changed), for the server PATCH and for the local
\* markClaimed.
C11_ClaimIdempotent ==
    \A p \in PlayerKeys :
        /\ gameStore # None =>
               LET once == patchClaim(gameStore, p)
               IN /\ patchClaim(once, p) = once
                  /\ p \in ClaimedIn(once)
                  /\ SameButClaims(once[1], gameStore[1])
                  /\ \A q \in PlayerKeys \ {p} : q \in ClaimedIn(once) <=> q \in ClaimedIn(gameStore)
        /\ \A d \in Devices :
               localGame[d] # None =>
                   LET once == setClaimed(localGame[d][1], p)
                   IN /\ setClaimed(once, p) = once
                      /\ p \in Claimed(once)
                      /\ SameButClaims(once, localGame[d][1])

\* a second claim of the same player is on its way to a document that has it
C11_Witness ==
    \E d \in Devices :
        /\ claimPending[d] # None
        /\ claimPending[d][1].playerName \in ClaimedIn(gameStore)
        /\ \A e \in Devices : claimPending[d][1].playerName \in ClaimedIn(localGame[e])

\* C19: in the in-memory fallback a game state stored through POST
\* /api/game/{room} is the document the elimination endpoint loads: an
\* elimination whose preconditions hold for the stored game does not answer
\* "Room not found".
C19_InMemoryEliminateSeesGame ==
    [][(/\ ~redisClient
        /\ gameStore # None
        /\ last' # last
        /\ eliminateResponse(ensureEliminations(gameStore[1]), last'.killer, last'.target)
               = Success)
       => last'.resp # RoomNotFound]_vars

\* C20: each player can claim their mission only once: once a player is marked
\* claimed at a kiosk, no later state of that kiosk offers the player in the
\* name-selection list again.
C20_ClaimedNeverOfferedAgain ==
    [][\A d \in Devices :
           \A p \in ClaimedIn(gameState[d]) : p \notin availablePlayers(gameState'[d])]_vars

(***************************************************************************)
(* Properties of the pure functions (SpecPure).                            *)
(***************************************************************************)
Count(seq, e) == Cardinality({i \in 1..Len(seq) : seq[i] = e})

\* C21: normalizeName is idempotent: normalizeName(normalizeName(x)) equals
\* normalizeName(x) for every string x, with leading, trailing and repeated
\* internal whitespace and mixed case.
C21_NormalizeIdempotent ==
    (call.fn = "normalizeName" /\ Len(ret) = 2) => ret[2] = ret[1]

C21_Witness ==
    /\ call.fn = "normalizeName"
    /\ Len(ret) = 2
    /\ Len(call.arg) = MaxLen
    /\ IsSpace(call.arg[1])
    /\ call.arg[2] = "A"
    /\ IsSpace(call.arg[3])
    /\ ret[1] = <<"a">>

\* C26: shuffle returns a new sequence that is a permutation of arr (same
\* length, same elements with the same multiplicities) and leaves arr
\* unchanged, for every input, the empty and the one-element sequence and
\* every sequence of draws included.
C26_ShufflePermutes ==
    (call.fn = "shuffle" /\ ret # << >>) =>
        /\ Len(ret[1].result) = Len(call.arg)
        /\ \A e \in Elements : Count(ret[1].result, e) = Count(call.arg, e)
        /\ ret[1].arr = call.arg

C26_Witness ==
    /\ call.fn = "shuffle"
    /\ ret # << >>
    /\ Len(call.arg) = MaxLen
    /\ ret[1].result # call.arg

(***************************************************************************)
(* The cycle of targets (SpecGen).                                         *)
(***************************************************************************)
\* the index of the player that player i targets
NextIndex(doc, i) ==
    CHOOSE j \in 1..Len(doc.players) : NamesOf(doc)[j] = TargetsOf(doc)[i]

\* C25: for N >= 3 distinct names the swap loop of derangement (i from N-1
\* down to 1, swapped with some j, 0 <= j < i) yields for every choice of the
\* j's a target relation that is a single cycle through all N players, and
\* the fixed-point repair pass performs no swap.
C25_SingleCycle ==
    Returned =>
        LET doc == lastGen.result[1]
            n == Len(doc.players)
        IN /\ \A S \in SUBSET (1..n) :
                  (S # {} /\ S # 1..n) => \E i \in S : NextIndex(doc, i) \notin S
           /\ TargetsOf(doc) = SwapLoop(NamesOf(doc), n - 1, seedDraws.targets)

C25_Witness ==
    /\ Returned
    /\ Len(lastGen.result[1].players) = MaxPlayers
    /\ seedDraws.targets[2] = 1
    /\ lastGen.op = "loadGameByRoom"

(***************************************************************************)
(* Who may kill whom (SpecElim).                                           *)
(***************************************************************************)
Living(store) == DOMAIN store[1].assignmentsByName \ Victims(store)

\* C23: for every killer identity that is a player of the game, a successful
\* eliminate requires the target to be that killer's current normalized
\* target and transfers the victim's mission to the killer, whatever the
\* players' names are (a name beginning with "dead_" included).
C23_PlayerKillNeedsTarget ==
    (Succeeded /\ last.killer \in DOMAIN last.pre[1].assignmentsByName) =>
        /\ last.target = TargetOf(last.pre[1], last.killer)
        /\ gameStore[1].assignmentsByName[last.killer]
               = last.pre[1].assignmentsByName[last.target]

\* C27: in every state reached from a built game by successful eliminations,
\* the current target of every player not recorded as a victim is a player
\* not recorded as a victim, and is the player themself only when they are
\* the last one.
C27_LivingTargetsLiving ==
    gameStore # None =>
        \A p \in Living(gameStore) :
            /\ TargetOf(gameStore[1], p) \in Living(gameStore)
            /\ TargetOf(gameStore[1], p) = p => Living(gameStore) = {p}

\* C28: a player recorded as a victim cannot afterwards be the killer of a
\* successful elimination: a request whose killer is a victim value is
\* rejected and leaves the document unchanged.
C28_VictimCannotKill ==
    (Answered /\ last.pre # None /\ last.killer \in Victims(last.pre)) =>
        /\ ~Succeeded
        /\ gameStore = last.pre

(***************************************************************************)
(* Joins and the shared document (SpecClaim).                              *)
(***************************************************************************)
\* C29: joining a room never replaces a game state the server already holds:
\* if the server has a document for the room when a join finishes, the
\* document is the same afterwards; a regenerated state is written only when
\* the server holds none.
C29_JoinKeepsServerState ==
    [][\A d \in Devices :
           (joinFetch[d] # None /\ joinFetch'[d] = None /\ gameStore # None)
               => gameStore' = gameStore]_vars

(***************************************************************************)
(* The document of a game in play (SpecPlay).                              *)
(***************************************************************************)
Identity(doc) == {doc.players[i].nameNormalized : i \in 1..Len(doc.players)}
DisplayNames(doc) == {doc.players[i].name : i \in 1..Len(doc.players)}

\* C24: in every state reached from a built game by claims and eliminations
\* the keys of assignmentsByName are exactly the nameNormalized of players,
\* the same set as at build time, and every targetName is the display name
\* of a player.
C24_AssignmentKeysArePlayers ==
    gameStore # None =>
        LET doc == gameStore[1]
        IN /\ DOMAIN doc.assignmentsByName = Identity(doc)
           /\ DOMAIN doc.assignmentsByName = DOMAIN Built.assignmentsByName
           /\ doc.players = Built.players
           /\ \A k \in DOMAIN doc.assignmentsByName :
                  doc.assignmentsByName[k].targetName \in DisplayNames(doc)

C24_Witness ==
    /\ gameStore # None
    /\ Eliminations(gameStore) # NoEliminations
    /\ Stranger \in Claimed(gameStore[1])

\* C30: a successful non-self-report elimination changes only
\* eliminations[killer] and assignmentsByName[killer]; players, rooms,
\* objects, roomNumber, claimedByName, the victim's assignment and every other
\* assignment stay; a successful claim changes only claimedByName[player].
C30_FrameEffect ==
    [][/\ (last' # last /\ last'.resp = Success /\ ~isSelfReportedDeath(last'.killer)) =>
              gameStore'[1] =
                  [gameStore[1] EXCEPT
                      !.hasEliminations = TRUE,
                      !.eliminations = Put(@, last'.killer, last'.target),
                      !.assignmentsByName =
                          Put(@, last'.killer,
                              gameStore'[1].assignmentsByName[last'.killer])]
       /\ (last' = last /\ gameStore # None /\ gameStore' # gameStore) =>
              \E p \in DOMAIN gameStore'[1].claimedByName :
                  gameStore'[1] = [gameStore[1] EXCEPT !.claimedByName = Put(@, p, TRUE)]]_vars

C30_Witness ==
    /\ Succeeded
    /\ ~SelfReport
    /\ Claimed(last.pre[1]) # {}
    /\ Claimed(gameStore[1]) # Claimed(last.pre[1])

(***************************************************************************)
(* Overlapping eliminations (SpecRace).                                    *)
(***************************************************************************)
ValidOn(loaded, q) ==
    eliminateResponse(ensureEliminations(loaded[1]), q.killer, q.target) = Success

\* the document read with only the elimination and inheritance of request q
OnlyEffectOf(loaded, q) ==
    [loaded[1] EXCEPT
        !.hasEliminations = TRUE,
        !.eliminations = Put(@, q.killer, q.target),
        !.assignmentsByName =
            IF isSelfReportedDeath(q.killer) THEN @
            ELSE Put(@, q.killer, loaded[1].assignmentsByName[q.target])]

\* C22: with the key-value store, two eliminate requests on a room that both
\* read the document before either writes it back both return success, and
\* the document persisted afterwards holds only the later writer's
\* elimination and inheritance; the earlier one is discarded and neither
\* caller is told.
C22_LastWriterWins ==
    \A i \in 1..Len(done) : \A j \in 1..Len(done) :
        (/\ i < j
         /\ done[i].loaded = done[j].loaded
         /\ ValidOn(done[i].loaded, done[i])
         /\ ValidOn(done[j].loaded, done[j])) =>
            /\ done[i].resp = Success
            /\ done[j].resp = Success
            /\ done[j].state = Some(OnlyEffectOf(done[j].loaded, done[j]))

C22_Witness ==
    /\ Len(done) >= 2
    /\ done[1].loaded = done[2].loaded
    /\ done[1].resp = Success
    /\ done[2].resp = Success
    /\ done[1].killer # done[2].killer
    /\ gameStore = done[2].state
    /\ done[1].killer \notin DOMAIN Eliminations(gameStore)

====
